---- MODULE Spec2Model ----
(***************************************************************************)
(* keyvisor: matrix-keypad scan/debounce task (kbd.rs), the key event bus  *)
(* (CHANNEL, an embassy_sync PubSubChannel<_, KeyEvent, 32, 1, 1>) and the *)
(* render task (ui.rs) that redraws one button per event and pushes the    *)
(* affected row stripe to the panel.                                       *)
(*                                                                         *)
(* Both tasks run under a cooperative executor: an action of this model is *)
(* the code a task runs from one .await to the next.                       *)
(***************************************************************************)
EXTENDS Integers, Sequences, FiniteSets, TLC

(* ---------------- program constants ---------------- *)
N_COLS == 3
N_ROWS == 4
DEBOUNCE_TICKS == 10
CAP == 32
SUBS == 1
WIDTH == 240
HEIGHT == 240
PIXEL_SIZE == 2
U8 == 256

(* ---------------- bounds of the model ---------------- *)
\* keys whose contacts may bounce freely in SpecFilter
NBouncy == 1
\* the keypad input of Spec stops changing once this many events were published
MaxPublished == 29
\* the run-length observer saturates here
RunCap == 13
\* SpecSub: subscribe calls made by other consumers, and the events after which
\* its keypad input stops changing
MaxSubCalls == 2
MaxPublishedSub == 3

Cols == 0 .. (N_COLS - 1)
Rows == 0 .. (N_ROWS - 1)
Keys == [col : Cols, row : Rows]
Key(c, r) == [col |-> c, row |-> r]

VARIABLES
    \* ---- kbd::task ----
    kbd_pc,          \* "start" | "settle" (Timer::after_micros) | "ticker" (ticker.next)
    col,             \* loop variable of `for col in 0..N_COLS`
    columns,         \* level of each column output line
    stable_states, staging_states, tick_counts,
    \* ---- CHANNEL and the subscriber handle ----
    CHANNEL,         \* [queue, subscriber_count, next_message_id]
    kbd_events,      \* the DynSubscriber of ui_main: <<>> or <<next_message_id>>
    \* ---- ui::ui_main ----
    ui_pc,           \* "init" | "push_full" | "wait_msg" | "push_stripe" | "panicked"
    fb,              \* frame buffer: style drawn in each key's cell
    bounds,          \* rectangle returned by the last update()
    transport,       \* show_raw_data requests in flight
    panel,           \* what the panel shows: style of each cell after the accepted pushes
    \* ---- environment ----
    held,            \* Spec: TRUE while every key of the keypad is held down
    \* ---- observers (no effect on the program) ----
    \* per key: level = its latest raw sample, run = how many latest samples in a row had
    \* that level (saturating at RunCap), base = its stable level when that run began,
    \* armed = whether ui_main was subscribed when that run began, ever_held = some
    \* level was sampled DEBOUNCE_TICKS times in a row, reported = what the latest
    \* apply() of its column reported for it, last_event = the latest event reported,
    \* published = the kinds of the events task() published for it after the latest
    \* read of its column.
    \* twin = a second run of the firmware from boot, reduced to the ColumnUpdate state
    \* of TwinKey's column and the events of its latest read: it is fed the samples
    \* this run reads for TwinKey, and inactive samples for every other key.
    \* event / recv_id = the latest message ui_main received and its place in publish
    \* order; n_recv, n_requests, n_completed count messages received, transport
    \* requests issued and completed; first_request is the first request issued;
    \* failed = <<>>, or the values of n_requests and n_recv when a push returned Err.
    \* sub_calls counts the calls of kbd::subscriber() by other consumers, sub_result
    \* is what the latest of them returned.
    level, run, base, armed, ever_held, reported, last_event, published, twin,
    event, recv_id, n_recv, n_requests, first_request, n_completed, failed,
    sub_calls, sub_result

kbdVars == <<kbd_pc, col, columns, stable_states, staging_states, tick_counts>>
busVars == <<CHANNEL, kbd_events>>
uiVars  == <<ui_pc, fb, bounds, transport, panel>>
obsKbd  == <<level, run, base, armed, ever_held, reported, last_event, published, twin>>
obsUi   == <<event, recv_id, n_recv, n_requests, first_request, n_completed, failed>>
obsSub  == <<sub_calls, sub_result>>
vars == <<kbdVars, busVars, uiVars, held, obsKbd, obsUi, obsSub>>

Min(a, b) == IF a < b THEN a ELSE b
Max(a, b) == IF a > b THEN a ELSE b

(* ======================= kbd.rs ======================= *)

\* KeyboardInterface::clear
clear(cols) == [c \in Cols |-> "high"]

\* A plausible slip: the previously selected column is not released.
scan_NoClear(cols, c) == [cols EXCEPT ![c] = "low"]

\* KeyboardInterface::scan
scan(cols, c) == [clear(cols) EXCEPT ![c] = "low"]

\* KeyboardInterface::read: row r reads low iff a closed switch connects it to a
\* column that is driven low.  `closed` is the set of keys whose contact is closed
\* at the sampling instant.
read(cols, closed) ==
    [r \in Rows |-> \E c \in Cols : cols[c] = "low" /\ Key(c, r) \in closed]

\* A plausible slip: the confirmation window is not awaited.
ApplyRow_NoWindow(new, stable, staging, tick) ==
    IF new # staging
    THEN [stable |-> stable, staging |-> new, tick |-> 0,
          pressed |-> FALSE, released |-> FALSE]
    ELSE IF new = stable
    THEN [stable |-> stable, staging |-> staging, tick |-> tick,
          pressed |-> FALSE, released |-> FALSE]
    ELSE [stable |-> new, staging |-> staging, tick |-> tick,
          pressed |-> new, released |-> ~new]

\* A plausible slip: the comparison against `stable` is left out.
ApplyRow_NoStableCheck(new, stable, staging, tick) ==
    IF new # staging
    THEN [stable |-> stable, staging |-> new, tick |-> 0,
          pressed |-> FALSE, released |-> FALSE]
    ELSE IF tick < DEBOUNCE_TICKS
    THEN [stable |-> stable, staging |-> staging, tick |-> (tick + 1) % U8,
          pressed |-> FALSE, released |-> FALSE]
    ELSE [stable |-> new, staging |-> staging, tick |-> tick,
          pressed |-> new, released |-> ~new]

\* A plausible slip: the counter is incremented on every unchanged sample, without
\* the `< DEBOUNCE_TICKS` bound, and wraps in its u8.
ApplyRow_NoSaturation(new, stable, staging, tick) ==
    IF new # staging
    THEN [stable |-> stable, staging |-> new, tick |-> 0,
          pressed |-> FALSE, released |-> FALSE]
    ELSE IF tick < DEBOUNCE_TICKS \/ new = stable
    THEN [stable |-> stable, staging |-> staging, tick |-> (tick + 1) % U8,
          pressed |-> FALSE, released |-> FALSE]
    ELSE [stable |-> new, staging |-> staging, tick |-> (tick + 1) % U8,
          pressed |-> new, released |-> ~new]

\* One iteration of the `for r in 0..N_ROWS` loop of ColumnUpdate::apply.
ApplyRow(new, stable, staging, tick) ==
    IF new # staging
    THEN [stable |-> stable, staging |-> new, tick |-> 0,
          pressed |-> FALSE, released |-> FALSE]
    ELSE IF tick < DEBOUNCE_TICKS
    THEN [stable |-> stable, staging |-> staging, tick |-> (tick + 1) % U8,
          pressed |-> FALSE, released |-> FALSE]
    ELSE IF new = stable
    THEN [stable |-> stable, staging |-> staging, tick |-> tick,
          pressed |-> FALSE, released |-> FALSE]
    ELSE [stable |-> new, staging |-> staging, tick |-> tick,
          pressed |-> new, released |-> ~new]

\* A plausible slip: the `continue` after a changed sample written as `break`, so
\* the rows after the first changed one are not processed in that call.
apply_BreakOnChange(stable_state, staging_state, ticks, new_state) ==
    LET changed == {r \in Rows : new_state[r] # staging_state[r]}
        skipped(r) == \E c \in changed : c < r
        out == [r \in Rows |->
                  IF skipped(r)
                  THEN [stable |-> stable_state[r], staging |-> staging_state[r],
                        tick |-> ticks[r], pressed |-> FALSE, released |-> FALSE]
                  ELSE ApplyRow(new_state[r], stable_state[r], staging_state[r], ticks[r])]
    IN [stable_state  |-> [r \in Rows |-> out[r].stable],
        staging_state |-> [r \in Rows |-> out[r].staging],
        tick_counts   |-> [r \in Rows |-> out[r].tick],
        pressed_keys  |-> [r \in Rows |-> out[r].pressed],
        released_keys |-> [r \in Rows |-> out[r].released]]

\* ColumnUpdate::apply on one column: the rows are independent of each other.
apply(stable_state, staging_state, ticks, new_state) ==
    LET out == [r \in Rows |->
                  ApplyRow(new_state[r], stable_state[r], staging_state[r], ticks[r])]
    IN [stable_state  |-> [r \in Rows |-> out[r].stable],
        staging_state |-> [r \in Rows |-> out[r].staging],
        tick_counts   |-> [r \in Rows |-> out[r].tick],
        pressed_keys  |-> [r \in Rows |-> out[r].pressed],
        released_keys |-> [r \in Rows |-> out[r].released]]

\* ColumnUpdateResult::any
any(updates) == \E r \in Rows : updates.pressed_keys[r] \/ updates.released_keys[r]

\* BitArray::iter_ones: the set rows in ascending order
iter_ones(bits) == SelectSeq([i \in 1 .. N_ROWS |-> i - 1], LAMBDA r : bits[r])

(* ---- embassy_sync PubSubChannel, as used through CHANNEL ---- *)

\* PubSubState::try_publish
try_publish(ch, message) ==
    IF ch.subscriber_count = 0 THEN ch
    ELSE IF Len(ch.queue) = CAP THEN ch
    ELSE [ch EXCEPT !.queue = Append(@, [msg |-> message, counter |-> ch.subscriber_count,
                                         id |-> ch.next_message_id]),
                    !.next_message_id = @ + 1]

\* A bug that queues the newest event in front of the pending ones.
publish_immediate_Lifo(ch, message) ==
    LET q == IF Len(ch.queue) = CAP THEN Tail(ch.queue) ELSE ch.queue
    IN IF ch.subscriber_count = 0 THEN [ch EXCEPT !.queue = q]
       ELSE [ch EXCEPT !.queue = <<[msg |-> message, counter |-> ch.subscriber_count,
                                     id |-> ch.next_message_id]>> \o q,
                       !.next_message_id = @ + 1]

\* A plausible slip: a full queue is not made room in, it grows.
publish_immediate_Grow(ch, message) ==
    IF ch.subscriber_count = 0 THEN ch
    ELSE [ch EXCEPT !.queue = Append(@, [msg |-> message, counter |-> ch.subscriber_count,
                                         id |-> ch.next_message_id]),
                    !.next_message_id = @ + 1]

\* ImmediatePublisher::publish_immediate: evicts the oldest pending event when the
\* queue is full, then publishes.  (id, a message's position in publish order, is
\* implicit in the real queue: next_message_id - queue.len() + index.)
publish_immediate(ch, message) ==
    LET q == IF Len(ch.queue) = CAP THEN Tail(ch.queue) ELSE ch.queue
    IN try_publish([ch EXCEPT !.queue = q], message)

\* What `publisher.publish(..).await` would wait for: room for the messages.
publish_ready_WaitForSpace(ch, messages) ==
    ch.subscriber_count = 0 \/ Len(ch.queue) + Len(messages) <= CAP

\* publish_immediate is a plain fn, not a future: task() never waits on CHANNEL.
publish_ready(ch, messages) == TRUE

RECURSIVE publish_all(_, _)
publish_all(ch, messages) ==
    IF messages = <<>> THEN ch
    ELSE publish_all(publish_immediate(ch, Head(messages)), Tail(messages))

\* A plausible slip: the second loop is a copy of the first and publishes KeyUp too.
KeyEvents_BothKeyUp(c, updates) ==
    LET rows == iter_ones(updates.released_keys) \o iter_ones(updates.pressed_keys)
    IN [i \in 1 .. Len(rows) |-> [kind |-> "KeyUp", key |-> Key(c, rows[i])]]

\* The events of one ColumnUpdateResult in the order task() publishes them:
\* the released keys first, then the pressed keys.
KeyEvents(c, updates) ==
    LET ups   == iter_ones(updates.released_keys)
        downs == iter_ones(updates.pressed_keys)
        kinds == [i \in 1 .. Len(ups) |-> "KeyUp"] \o [i \in 1 .. Len(downs) |-> "KeyDown"]
        rows  == ups \o downs
    IN [i \in 1 .. Len(rows) |->
          [kind |-> kinds[i], key |-> Key(c, rows[i])]]

Halted == ui_pc = "panicked"

K00 == Key(0, 0)

\* The key whose events and filter state are compared between two runs.
TwinKey == Key(0, 1)

\* The kinds of the events for key k in a list of published events, in order.
KindsFor(k, events) ==
    LET mine == SelectSeq(events, LAMBDA e : e.key = k)
    IN [i \in 1 .. Len(mine) |-> mine[i].kind]

\* task(): from its start to the first Timer::after_micros.
KbdStart ==
    /\ ~Halted
    /\ kbd_pc = "start"
    /\ columns' = scan(columns, 0)
    /\ col' = 0
    /\ kbd_pc' = "settle"
    /\ UNCHANGED <<stable_states, staging_states, tick_counts>>
    /\ UNCHANGED <<busVars, uiVars, held, obsKbd, obsUi, obsSub>>

\* task(), lines 178-187: the result of apply() on the sample read for column `col`.
KbdUpdates(closed) ==
    apply(stable_states[col], staging_states[col], tick_counts[col], read(columns, closed))

\* task(), lines 189-207: the events published for that result.
KbdEvents(closed) ==
    LET updates == KbdUpdates(closed)
    IN IF any(updates) THEN KeyEvents(col, updates) ELSE <<>>

\* What the scan loop needs to get from the settle delay to its next suspension.
KbdReadEnabled(closed) ==
    /\ ~Halted
    /\ kbd_pc = "settle"
    /\ publish_ready(CHANNEL, KbdEvents(closed))

\* task(): from the end of the settle delay to the next suspension: read the rows,
\* debounce, publish, then either scan the next column or wait for the ticker.
KbdRead(closed) ==
    /\ KbdReadEnabled(closed)
    /\ LET mask    == read(columns, closed)
           updates == KbdUpdates(closed)
           events  == KbdEvents(closed)
           sampled == [k \in Keys |-> k.col = col]
           newrun  == [k \in Keys |->
                         IF ~sampled[k] THEN run[k]
                         ELSE IF run[k] > 0 /\ mask[k.row] = level[k]
                              THEN Min(run[k] + 1, RunCap) ELSE 1]
           rep     == [k \in Keys |->
                         IF ~sampled[k] THEN reported[k]
                         ELSE IF updates.pressed_keys[k.row] THEN "KeyDown"
                         ELSE IF updates.released_keys[k.row] THEN "KeyUp"
                         ELSE "none"]
           \* the second run: the same code on TwinKey's samples alone
           tmask   == [r \in Rows |-> r = TwinKey.row /\ mask[r]]
           tupd    == apply(twin.stable_state, twin.staging_state, twin.tick_counts, tmask)
           tevents == IF any(tupd) THEN KeyEvents(col, tupd) ELSE <<>>
       IN /\ stable_states'  = [stable_states  EXCEPT ![col] = updates.stable_state]
          /\ staging_states' = [staging_states EXCEPT ![col] = updates.staging_state]
          /\ tick_counts'    = [tick_counts    EXCEPT ![col] = updates.tick_counts]
          /\ CHANNEL' = publish_all(CHANNEL, events)
          /\ level' = [k \in Keys |-> IF sampled[k] THEN mask[k.row] ELSE level[k]]
          /\ run' = newrun
          /\ base' = [k \in Keys |->
                        IF sampled[k] /\ newrun[k] = 1
                        THEN stable_states[k.col][k.row] ELSE base[k]]
          /\ armed' = [k \in Keys |->
                         IF sampled[k] /\ newrun[k] = 1
                         THEN kbd_events # <<>> ELSE armed[k]]
          /\ ever_held' = [k \in Keys |-> ever_held[k] \/ newrun[k] >= DEBOUNCE_TICKS]
          /\ reported' = rep
          /\ last_event' = [k \in Keys |->
                              IF sampled[k] /\ rep[k] # "none" THEN rep[k] ELSE last_event[k]]
          /\ published' = [k \in Keys |->
                             IF sampled[k] THEN KindsFor(k, events) ELSE published[k]]
          /\ twin' = IF col = TwinKey.col
                     THEN [stable_state |-> tupd.stable_state,
                           staging_state |-> tupd.staging_state,
                           tick_counts |-> tupd.tick_counts,
                           events |-> tevents]
                     ELSE twin
    /\ IF col < N_COLS - 1
       THEN /\ col' = col + 1
            /\ columns' = scan(columns, col + 1)
            /\ kbd_pc' = "settle"
       ELSE /\ kbd_pc' = "ticker"
            /\ UNCHANGED <<col, columns>>
    /\ UNCHANGED <<kbd_events, uiVars, held, obsUi, obsSub>>

\* What the scan loop needs to get from the ticker to its next suspension.
KbdTickEnabled == ~Halted /\ kbd_pc = "ticker"

\* task(): the ticker fires, the outer loop starts its next round.
KbdTick ==
    /\ KbdTickEnabled
    /\ col' = 0
    /\ columns' = scan(columns, 0)
    /\ kbd_pc' = "settle"
    /\ UNCHANGED <<stable_states, staging_states, tick_counts>>
    /\ UNCHANGED <<busVars, uiVars, held, obsKbd, obsUi, obsSub>>

(* ======================= ui.rs ======================= *)

Button_WIDTH == WIDTH \div N_COLS
\* A plausible slip: the cell height is derived from the number of columns.
Button_HEIGHT_ByCols == HEIGHT \div N_COLS

Button_HEIGHT == HEIGHT \div N_ROWS
FRAME_SIZE == WIDTH * HEIGHT * PIXEL_SIZE

\* A plausible slip: the arguments are taken in the other order.
button_pos_Swapped(row, c) == [x |-> row * Button_WIDTH, y |-> c * Button_HEIGHT]

\* button_pos
button_pos(row, c) == [x |-> c * Button_WIDTH, y |-> row * Button_HEIGHT]

\* Button::bounds
Button_bounds(top_left) ==
    [x |-> top_left.x, y |-> top_left.y, width |-> Button_WIDTH, height |-> Button_HEIGHT]

\* Button::draw: the rounded rectangle (the bounds shrunk by 3 pixels) and the centred
\* label lie inside the bounds, so exactly the grid cell at top_left is repainted.
\* A cell's content is abstracted to the style it was last drawn in.
draw(target, top_left, style) ==
    LET cell == Key(top_left.x \div Button_WIDTH, top_left.y \div Button_HEIGHT)
    IN IF cell \in Keys THEN [target EXCEPT ![cell] = style] ELSE target

\* update
update(key, direction, target) ==
    LET point == button_pos(key.row, key.col)
        style == IF direction = "Down" THEN "pressed" ELSE "unpressed"
    IN [fb |-> draw(target, point, style), bounds |-> Button_bounds(point)]

\* fb.as_bytes()[start..end]: the byte range and, for the grid rows whose pixel rows
\* it holds, the content of their cells.
as_bytes(target, start, end) ==
    LET stride == WIDTH * PIXEL_SIZE
        pixel_rows == (start \div stride) .. ((end \div stride) - 1)
        grid_rows == {p \div Button_HEIGHT : p \in pixel_rows}
    IN [start |-> start, end |-> end,
        rows |-> [r \in grid_rows |-> [c \in Cols |-> target[Key(c, r)]]]]

\* The argument list of Display::show_raw_data
Request(x, y, width, height, data) ==
    [x |-> x, y |-> y, width |-> width, height |-> height, data |-> data]

\* The panel after it accepted a request: the cells inside the addressed window take
\* the content sent for them.
Accept(p, req) ==
    [k \in Keys |->
        IF /\ k.col * Button_WIDTH >= req.x
           /\ k.col * Button_WIDTH < req.x + req.width
           /\ k.row * Button_HEIGHT >= req.y
           /\ k.row * Button_HEIGHT < req.y + req.height
           /\ k.row \in DOMAIN req.data.rows
        THEN req.data.rows[k.row][k.col] ELSE p[k]]

(* ---- the subscriber side of the PubSubChannel ---- *)

\* PubSubState::get_message
get_message(ch, message_id) ==
    LET start_id == ch.next_message_id - Len(ch.queue)
        index == message_id - start_id
    IN IF message_id < start_id
       THEN [kind |-> "Lagged", amount |-> start_id - message_id,
             item |-> [msg |-> [kind |-> "none", key |-> Key(0, 0)], counter |-> 0, id |-> -1],
             ch |-> ch]
       ELSE IF index >= Len(ch.queue)
       THEN [kind |-> "None", amount |-> 0,
             item |-> [msg |-> [kind |-> "none", key |-> Key(0, 0)], counter |-> 0, id |-> -1],
             ch |-> ch]
       ELSE LET item == ch.queue[index + 1]
            IN [kind |-> "Message", amount |-> 0, item |-> item,
                ch |-> IF index = 0 /\ item.counter - 1 = 0
                       THEN [ch EXCEPT !.queue = Tail(@)]
                       ELSE [ch EXCEPT !.queue[index + 1].counter = @ - 1]]

\* Subscriber::next_message_pure, one poll: a Lagged result advances the subscriber
\* past the evicted messages and the poll goes on; "None" leaves it pending.
next_message_pure(ch, next_message_id) ==
    LET first == get_message(ch, next_message_id)
        id == IF first.kind = "Lagged" THEN next_message_id + first.amount
              ELSE next_message_id
        got == IF first.kind = "Lagged" THEN get_message(ch, id) ELSE first
    IN [kind |-> got.kind, item |-> got.item, ch |-> got.ch,
        next_message_id |-> IF got.kind = "Message" THEN id + 1 ELSE id]

\* A plausible slip: the subscriber limit is not enforced.
subscriber_NoLimit(ch) ==
    [ok |-> TRUE, ch |-> [ch EXCEPT !.subscriber_count = @ + 1],
     handle |-> <<ch.next_message_id>>]

\* PubSubChannel::dyn_subscriber, through kbd::subscriber
subscriber(ch) ==
    IF ch.subscriber_count >= SUBS
    THEN [ok |-> FALSE, ch |-> ch, handle |-> <<>>]
    ELSE [ok |-> TRUE, ch |-> [ch EXCEPT !.subscriber_count = @ + 1],
          handle |-> <<ch.next_message_id>>]

\* PubSubState::unregister_subscriber, run when the handle is dropped
unregister_subscriber(ch, next_message_id) ==
    LET start_id == ch.next_message_id - Len(ch.queue)
        index == next_message_id - start_id
        dec == IF next_message_id >= start_id
               THEN [i \in 1 .. Len(ch.queue) |->
                       IF i > index THEN [ch.queue[i] EXCEPT !.counter = @ - 1]
                       ELSE ch.queue[i]]
               ELSE ch.queue
        RECURSIVE pop_read(_)
        pop_read(q) == IF q # <<>> /\ Head(q).counter = 0 THEN pop_read(Tail(q)) ELSE q
    IN [ch EXCEPT !.subscriber_count = @ - 1,
                  !.queue = IF next_message_id >= start_id THEN pop_read(dec) ELSE dec]

\* A plausible slip: the grid is not drawn before the first push.
StartupFrame_NotDrawn(target) == [k \in Keys |-> "black"]

\* ui_main, lines 22-33: clear the frame buffer, then draw every button unpressed.
StartupFrame(target) ==
    LET cleared == [k \in Keys |-> "black"]
        RECURSIVE draw_all(_, _)
        draw_all(t, i) ==
            IF i = N_ROWS * N_COLS THEN t
            ELSE draw_all(draw(t, button_pos(i \div N_COLS, i % N_COLS), "unpressed"), i + 1)
    IN draw_all(cleared, 0)

\* A plausible slip: the stripe is sent to the top rows of the panel, and from the
\* start of the frame buffer.
StripeRequest_TopStripe(b, target) ==
    Request(0, 0, WIDTH, b.height % 65536,
            as_bytes(target, 0, b.height * WIDTH * PIXEL_SIZE))

\* A plausible slip: the stripe is addressed like the damage rectangle.
StripeRequest_RectX(b, target) ==
    Request(b.x, b.y, b.width, b.height,
            as_bytes(target, b.y * WIDTH * PIXEL_SIZE, (b.y + b.height) * WIDTH * PIXEL_SIZE))

\* ui_main, lines 54-65: the stripe request for the damage rectangle `b`.
StripeRequest(b, target) ==
    LET y == b.y
        height == b.height
        stripe_start == y * WIDTH * PIXEL_SIZE
        stripe_end == (y + height) * WIDTH * PIXEL_SIZE
    IN Request(0, y % 65536, WIDTH, height % 65536, as_bytes(target, stripe_start, stripe_end))

\* ui_main: from its start to the await of the startup push.
UiStart ==
    /\ ui_pc = "init"
    /\ LET frame == StartupFrame(fb)
           req == Request(0, 0, WIDTH, HEIGHT, as_bytes(frame, 0, FRAME_SIZE))
       IN /\ fb' = frame
          /\ transport' = Append(transport, req)
          /\ first_request' = req
    /\ n_requests' = n_requests + 1
    /\ ui_pc' = "push_full"
    /\ UNCHANGED <<bounds, panel, kbdVars, busVars, held, obsKbd,
                   event, recv_id, n_recv, n_completed, failed, obsSub>>

\* ui_main: the startup push completed; subscribe and wait for the first event.
\* A refused subscription is an Err that task() turns into a panic.
UiSubscribe ==
    /\ ui_pc = "push_full"
    /\ panel' = Accept(panel, Head(transport))
    /\ transport' = Tail(transport)
    /\ n_completed' = n_completed + 1
    /\ LET sub == subscriber(CHANNEL)
       IN /\ CHANNEL' = sub.ch
          /\ kbd_events' = sub.handle
          /\ ui_pc' = IF sub.ok THEN "wait_msg" ELSE "panicked"
    /\ UNCHANGED <<fb, bounds, kbdVars, held, obsKbd,
                   event, recv_id, n_recv, n_requests, first_request, failed, obsSub>>

\* A plausible slip: the stripe push is started but not awaited.
AfterStripeIssued_NotAwaited == "wait_msg"

\* Where ui_main is once it issued the stripe push: suspended in its .await.
AfterStripeIssued == "push_stripe"

\* ui_main: next_message_pure yields an event; redraw its button, issue the stripe push.
UiEvent ==
    /\ ui_pc = "wait_msg"
    /\ LET got == next_message_pure(CHANNEL, kbd_events[1])
       IN /\ got.kind = "Message"
          /\ CHANNEL' = got.ch
          /\ kbd_events' = <<got.next_message_id>>
          /\ event' = got.item.msg
          /\ recv_id' = got.item.id
          /\ LET upd == update(got.item.msg.key,
                               IF got.item.msg.kind = "KeyDown" THEN "Down" ELSE "Up", fb)
             IN /\ fb' = upd.fb
                /\ bounds' = upd.bounds
                /\ transport' = Append(transport, StripeRequest(upd.bounds, upd.fb))
    /\ n_recv' = n_recv + 1
    /\ n_requests' = n_requests + 1
    /\ ui_pc' = AfterStripeIssued
    /\ UNCHANGED <<panel, kbdVars, held, obsKbd, first_request, n_completed, failed, obsSub>>

\* ui_main: the stripe push completed; back to awaiting the next event.
UiStripeDone ==
    /\ ui_pc = "push_stripe"
    /\ panel' = Accept(panel, Head(transport))
    /\ transport' = Tail(transport)
    /\ n_completed' = n_completed + 1
    /\ ui_pc' = "wait_msg"
    /\ UNCHANGED <<fb, bounds, kbdVars, busVars, held, obsKbd,
                   event, recv_id, n_recv, n_requests, first_request, failed, obsSub>>

\* A plausible slip: the Err of a push is only logged and the loop goes on.
OnPushError_Logged(pc) == "wait_msg"

\* Where ui_main is after a push returned Err: `?` returns the error from ui_main
\* and the expect() of task() panics.
OnPushError(pc) == "panicked"

\* ui_main: show_raw_data returns an error; `?` leaves ui_main, which drops the
\* subscriber, and task()'s expect() panics: the panic handler never returns, so
\* neither task runs again.
UiPushFail ==
    /\ ui_pc \in {"push_full", "push_stripe"}
    /\ transport' = Tail(transport)
    /\ IF kbd_events # <<>>
       THEN /\ CHANNEL' = unregister_subscriber(CHANNEL, kbd_events[1])
            /\ kbd_events' = <<>>
       ELSE UNCHANGED <<CHANNEL, kbd_events>>
    /\ ui_pc' = OnPushError(ui_pc)
    /\ failed' = <<[n_requests |-> n_requests, n_recv |-> n_recv]>>
    /\ UNCHANGED <<fb, bounds, panel, kbdVars, held, obsKbd,
                   event, recv_id, n_recv, n_requests, first_request, n_completed,
                   obsSub>>

(* ======================= environment of Spec ======================= *)

\* The whole keypad is pressed or released between two scan rounds.  The input
\* freezes once MaxPublished events were accepted by the bus.
EnvToggle ==
    /\ ~Halted
    /\ kbd_pc \in {"start", "ticker"}
    /\ CHANNEL.next_message_id < MaxPublished
    /\ held' = ~held
    /\ UNCHANGED <<kbdVars, busVars, uiVars, obsKbd, obsUi, obsSub>>

\* The contacts closed at a sampling instant of Spec.
ClosedNow == IF held THEN Keys ELSE {}

KbdReadHeld == KbdRead(ClosedNow)

(* ======================= initial state ======================= *)

NoRect == [x |-> 0, y |-> 0, width |-> 0, height |-> 0]
NoEvent == [kind |-> "none", key |-> Key(0, 0)]
NoRequest == [x |-> 0, y |-> 0, width |-> 0, height |-> 0,
              data |-> [start |-> 0, end |-> 0, rows |-> <<>>]]

Init ==
    /\ kbd_pc = "start"
    /\ col = 0
    /\ columns = [c \in Cols |-> "high"]
    /\ stable_states  = [c \in Cols |-> [r \in Rows |-> FALSE]]
    /\ staging_states = [c \in Cols |-> [r \in Rows |-> FALSE]]
    /\ tick_counts    = [c \in Cols |-> [r \in Rows |-> 0]]
    /\ CHANNEL = [queue |-> <<>>, subscriber_count |-> 0, next_message_id |-> 0]
    /\ kbd_events = <<>>
    /\ ui_pc = "init"
    /\ fb = [k \in Keys |-> "black"]
    /\ bounds = NoRect
    /\ transport = <<>>
    /\ panel = [k \in Keys |-> "unknown"]
    /\ held = FALSE
    /\ level = [k \in Keys |-> FALSE]
    /\ run = [k \in Keys |-> 0]
    /\ base = [k \in Keys |-> FALSE]
    /\ armed = [k \in Keys |-> FALSE]
    /\ ever_held = [k \in Keys |-> FALSE]
    /\ reported = [k \in Keys |-> "none"]
    /\ last_event = [k \in Keys |-> "none"]
    /\ published = [k \in Keys |-> <<>>]
    /\ twin = [stable_state |-> [r \in Rows |-> FALSE],
               staging_state |-> [r \in Rows |-> FALSE],
               tick_counts |-> [r \in Rows |-> 0],
               events |-> <<>>]
    /\ event = NoEvent
    /\ recv_id = -1
    /\ n_recv = 0
    /\ n_requests = 0
    /\ first_request = NoRequest
    /\ n_completed = 0
    /\ failed = <<>>
    /\ sub_calls = 0
    /\ sub_result = "none"

(* ======================= the debounce filter alone ======================= *)

\* The keys whose contacts bounce: (0,0), (0,1), (1,0), (1,1), ...
BouncyKeys == {k \in Keys : k.row < 2 /\ 2 * k.col + k.row < NBouncy}

\* The scan task with arbitrary contact states at every sampling instant; the render
\* task is not running, so nothing subscribes to CHANNEL.
KbdReadBounce == \E closed \in SUBSET BouncyKeys : KbdRead(closed)

NextFilter == KbdStart \/ KbdReadBounce \/ KbdTick

SpecFilter == Init /\ [][NextFilter]_vars

(* ======================= two runs of the filter ======================= *)

\* The other keys of TwinKey's column.
TwinOthers == {k \in Keys : k.col = TwinKey.col /\ k # TwinKey}

\* The scan task reading arbitrary samples for TwinKey and, independently of them,
\* arbitrary samples for the other keys of its column (these move together).
KbdReadTwin ==
    \E own \in SUBSET {TwinKey} : \E others \in {{}, TwinOthers} : KbdRead(own \cup others)

NextTwin == KbdStart \/ KbdReadTwin \/ KbdTick

SpecTwin == Init /\ [][NextTwin]_vars

(* ======================= further subscribers ======================= *)

\* kbd::subscriber() is public: another consumer calls it.  A handle it obtains is
\* kept for good and never read.
SubscribeAgain ==
    /\ ~Halted
    /\ sub_calls < MaxSubCalls
    /\ LET sub == subscriber(CHANNEL)
       IN /\ CHANNEL' = sub.ch
          /\ sub_result' = IF sub.ok THEN "ok" ELSE "err"
    /\ sub_calls' = sub_calls + 1
    /\ UNCHANGED <<kbd_events, kbdVars, uiVars, held, obsKbd, obsUi>>

\* EnvToggle with the shorter input of SpecSub.
EnvToggleSub ==
    /\ ~Halted
    /\ kbd_pc \in {"start", "ticker"}
    /\ CHANNEL.next_message_id < MaxPublishedSub
    /\ held' = ~held
    /\ UNCHANGED <<kbdVars, busVars, uiVars, obsKbd, obsUi, obsSub>>

NextSub ==
    \/ KbdStart
    \/ KbdReadHeld
    \/ KbdTick
    \/ EnvToggleSub
    \/ UiStart
    \/ UiSubscribe
    \/ UiEvent
    \/ UiStripeDone
    \/ UiPushFail
    \/ SubscribeAgain

SpecSub == Init /\ [][NextSub]_vars

(* ======================= the whole firmware ======================= *)

Next ==
    \/ KbdStart
    \/ KbdReadHeld
    \/ KbdTick
    \/ EnvToggle
    \/ UiStart
    \/ UiSubscribe
    \/ UiEvent
    \/ UiStripeDone
    \/ UiPushFail

Spec == Init /\ [][Next]_vars

(* ======================= properties ======================= *)

Stable(k) == stable_states[k.col][k.row]
CellRect(k) ==
    [x |-> k.col * (WIDTH \div N_COLS), y |-> k.row * (HEIGHT \div N_ROWS),
     width |-> WIDTH \div N_COLS, height |-> HEIGHT \div N_ROWS]

\* C1 (confirmation delay): a key that was stable released when its raw samples
\* became active gets its KeyDown reported on the DEBOUNCE_TICKS-th consecutive
\* active sample, and nothing is reported for it on the earlier samples of the run.
C1_ConfirmationDelay ==
    \A k \in Keys :
        (level[k] /\ ~base[k] /\ run[k] >= 1 /\ run[k] <= DEBOUNCE_TICKS) =>
            reported[k] = (IF run[k] = DEBOUNCE_TICKS THEN "KeyDown" ELSE "none")

\* What apply() does instead: the KeyDown comes with the (DEBOUNCE_TICKS + 2)-th
\* consecutive active sample.
ConfirmationOnTwelfthSample ==
    \A k \in Keys :
        (level[k] /\ ~base[k] /\ run[k] >= 1 /\ run[k] <= DEBOUNCE_TICKS + 2) =>
            reported[k] = (IF run[k] = DEBOUNCE_TICKS + 2 THEN "KeyDown" ELSE "none")

\* C2 (bounce rejection): as long as no raw level of a key was sampled
\* DEBOUNCE_TICKS times in a row since boot, no event was ever reported for the key
\* and its stable level is still released.
C2_BounceRejection ==
    \A k \in Keys :
        ~ever_held[k] => (last_event[k] = "none" /\ reported[k] = "none" /\ ~Stable(k))

\* a key that bounced: active for DEBOUNCE_TICKS - 1 samples in a row after at least
\* one change of level, never any level for DEBOUNCE_TICKS samples
C2_Witness ==
    \E k \in Keys :
        ~ever_held[k] /\ level[k] /\ run[k] = DEBOUNCE_TICKS - 1
        /\ tick_counts[k.col][k.row] = DEBOUNCE_TICKS - 2

\* C3 (no duplicate reporting): apply() reports a KeyDown for a key only if the
\* latest event reported for that key before was not a KeyDown (none, or a KeyUp).
C3_NoDuplicateKeyDown ==
    [][\A k \in Keys :
          (kbd_pc = "settle" /\ col = k.col /\ reported'[k] = "KeyDown")
              => last_event[k] # "KeyDown"]_vars

\* a key whose KeyDown was reported and that was sampled active again afterwards
C3_Witness ==
    \E k \in Keys :
        /\ last_event[k] = "KeyDown" /\ reported[k] = "none"
        /\ level[k] /\ run[k] >= DEBOUNCE_TICKS + 3 /\ Stable(k)

\* C4 (visual state tracks physical state): whenever the render loop awaits the next
\* message and the bus holds no pending event, a key's cell is drawn pressed iff the
\* key's debounced stable level is pressed.
C4_VisualTracksPhysical ==
    (ui_pc = "wait_msg" /\ CHANNEL.queue = <<>>) =>
        \A k \in Keys : (fb[k] = "pressed") <=> Stable(k)

C6_PublishOrder ==
    [][n_recv' # n_recv => recv_id' > recv_id]_vars

\* several messages were received, and some were skipped in between (evicted)
C6_Witness ==
    n_recv >= 3 /\ recv_id > n_recv

\* C7 (startup push): the first transport request is the full-frame push of the
\* frame with all keys drawn unpressed; it is the only request that is not tied to a
\* received event; and it has completed whenever the render loop is subscribed,
\* awaits or has received an event.
C7_StartupPush ==
    /\ n_requests >= 1 =>
         first_request =
            Request(0, 0, WIDTH, HEIGHT,
                    [start |-> 0, end |-> WIDTH * HEIGHT * PIXEL_SIZE,
                     rows |-> [r \in Rows |-> [c \in Cols |-> "unpressed"]]])
    /\ n_requests = n_recv + (IF ui_pc = "init" THEN 0 ELSE 1)
    /\ (ui_pc = "init") => (n_recv = 0 /\ kbd_events = <<>> /\ transport = <<>>)
    /\ (kbd_events # <<>> \/ CHANNEL.subscriber_count > 0 \/ n_recv > 0
          \/ ui_pc \in {"wait_msg", "push_stripe"}) => n_completed >= 1
    /\ ui_pc = "push_full" => (n_completed = 0 /\ transport = <<first_request>>)
    /\ ui_pc = "push_stripe" => Head(transport).height < HEIGHT

\* the render loop is pushing the stripe of its second event
C7_Witness ==
    ui_pc = "push_stripe" /\ n_recv = 2 /\ n_requests = 3 /\ n_completed = 2

\* C8 (damage region): the rectangle update() returned for the latest event is the
\* grid cell of the event's key, whatever the direction.
C8_DamageRegion ==
    n_recv > 0 => bounds = CellRect(event.key)

\* a KeyUp of the key in the last column and last row was processed
C8_Witness ==
    ui_pc = "push_stripe" /\ event = [kind |-> "KeyUp", key |-> Key(N_COLS - 1, N_ROWS - 1)]

\* C9 (stripe push): while a stripe push is in flight it is the only request, it
\* addresses x = 0, the full width and the rows of the event's key, and it carries
\* the frame-buffer bytes of exactly those rows, the key's cell already redrawn.
C9_StripePush ==
    ui_pc = "push_stripe" =>
        LET req == Head(transport)
            k == event.key
            y == k.row * (HEIGHT \div N_ROWS)
            h == HEIGHT \div N_ROWS
        IN /\ Len(transport) = 1
           /\ req.x = 0 /\ req.width = WIDTH /\ req.y = y /\ req.height = h
           /\ req.data.start = y * WIDTH * PIXEL_SIZE
           /\ req.data.end = req.data.start + h * WIDTH * PIXEL_SIZE
           /\ req.data.rows = [r \in {k.row} |-> [c \in Cols |-> fb[Key(c, r)]]]
           /\ fb[k] = (IF event.kind = "KeyDown" THEN "pressed" ELSE "unpressed")

\* a KeyDown in the middle column, pushed in a stripe that also holds a pressed and
\* an unpressed cell
C9_Witness ==
    /\ ui_pc = "push_stripe"
    /\ event = [kind |-> "KeyDown", key |-> Key(1, 2)]
    /\ fb[Key(0, 2)] = "pressed" /\ fb[Key(2, 2)] = "unpressed"

\* C10 (scenario A): with the render loop subscribed before the key is touched, once
\* the raw samples of key (0,0) have been active DEBOUNCE_TICKS times in a row from
\* the released state, its KeyDown has been published (the latest event of the key).
C10_ScenarioA ==
    (armed[K00] /\ level[K00] /\ ~base[K00] /\ run[K00] >= DEBOUNCE_TICKS)
        => last_event[K00] = "KeyDown"

\* C11 (scenario B): with the render loop subscribed, once the raw samples of key
\* (0,0) have been inactive DEBOUNCE_TICKS times in a row from the pressed state that
\* scenario A left, its KeyUp has been published (the latest event of the key).
C11_ScenarioB ==
    (armed[K00] /\ ~level[K00] /\ base[K00] /\ run[K00] >= DEBOUNCE_TICKS)
        => last_event[K00] = "KeyUp"

\* C12 (per-key independence): after every read of its column, TwinKey's stable,
\* staging and tick_count and the events published for it are those of the run that
\* was fed the same samples for TwinKey and inactive samples for every other key.
\* (Any two runs that agree on TwinKey's samples then agree with each other.)
C12_PerKeyIndependence ==
    /\ stable_states[TwinKey.col][TwinKey.row] = twin.stable_state[TwinKey.row]
    /\ staging_states[TwinKey.col][TwinKey.row] = twin.staging_state[TwinKey.row]
    /\ tick_counts[TwinKey.col][TwinKey.row] = twin.tick_counts[TwinKey.row]
    /\ published[TwinKey] = KindsFor(TwinKey, twin.events)

\* one read published TwinKey's KeyDown together with the KeyUp of another key of the
\* column, which the second run never saw pressed
C12_Witness ==
    /\ published[TwinKey] = <<"KeyDown">>
    /\ published[K00] = <<"KeyUp">>
    /\ twin.events = <<[kind |-> "KeyDown", key |-> TwinKey]>>
    /\ ~twin.stable_state[0]

\* C13 (fatal transport error): once a push (the startup push or a stripe push) has
\* returned an error, the render loop is terminated: the failed request is not in
\* flight again, no request was issued and no event was taken from the bus since
\* the failure, and the subscriber handle is gone.
C13_FatalTransportError ==
    failed # <<>> =>
        /\ ui_pc = "panicked"
        /\ transport = <<>>
        /\ n_requests = failed[1].n_requests
        /\ n_recv = failed[1].n_recv
        /\ n_completed = n_requests - 1
        /\ kbd_events = <<>>

\* a stripe push failed after two events had been received
C13_Witness ==
    /\ failed # <<>>
    /\ failed[1].n_recv >= 2
    /\ failed[1].n_requests = 3

\* C14 (bounded bus): the bus never holds more than CAP pending events, whatever the
\* render loop does; a publish into the full bus is resolved on the spot: the
\* pending events are always the latest ones published, in publish order.
C14_BoundedBus ==
    /\ Len(CHANNEL.queue) <= CAP
    /\ \A i \in 1 .. Len(CHANNEL.queue) :
           CHANNEL.queue[i].id = CHANNEL.next_message_id - Len(CHANNEL.queue) + (i - 1)

\* the bus is full, older events were evicted from it, the render loop is blocked
\* in a transport call and the scan loop has gone on to its ticker
C14_Witness ==
    /\ Len(CHANNEL.queue) = CAP
    /\ CHANNEL.queue[1].id > recv_id + 1
    /\ ui_pc = "push_stripe"
    /\ kbd_pc = "ticker"

\* C15 (subscription failure at subscription time only): a subscribe call made while
\* the one subscriber slot is taken, by another consumer or by ui_main, returns an
\* error and leaves the bus as it was (ui_main's error ends the render task); and
\* the scan loop's publishing step can always be taken, with zero or one subscriber.
C15_SubscribeFailsPublishNever ==
    /\ [][(CHANNEL.subscriber_count >= SUBS /\ sub_calls' # sub_calls)
             => (sub_result' = "err" /\ CHANNEL' = CHANNEL /\ kbd_events' = kbd_events)]_vars
    /\ [][(CHANNEL.subscriber_count >= SUBS /\ ui_pc = "push_full"
                                            /\ n_completed' # n_completed)
             => (ui_pc' = "panicked" /\ CHANNEL' = CHANNEL /\ kbd_events' = <<>>)]_vars
    /\ [](CHANNEL.subscriber_count \in 0 .. SUBS)
    /\ []((kbd_pc = "settle" /\ ~Halted) => KbdReadEnabled(ClosedNow))

\* another consumer was refused while ui_main held the slot and events were pending
C15_Witness ==
    /\ sub_result = "err"
    /\ kbd_events # <<>>
    /\ Len(CHANNEL.queue) >= 2
    /\ CHANNEL.subscriber_count = SUBS

\* C16 (column exclusivity): at most one column line is low at any time; while the
\* scan loop waits out the settle delay, whatever the render loop does meanwhile,
\* exactly column `col` is low, so the row lines read the keys of that column and of
\* no other; and the read changes the debounce state of column `col` only.
C16_ColumnExclusivity ==
    /\ [](Cardinality({c \in Cols : columns[c] = "low"}) <= 1)
    /\ [](kbd_pc = "settle" =>
            /\ \A c \in Cols : (columns[c] = "low") <=> (c = col)
            /\ \A k \in Keys :
                   read(columns, {k}) = [r \in Rows |-> k = Key(col, r)])
    /\ [][kbd_pc = "settle" =>
            \A c \in Cols \ {col} :
                /\ stable_states'[c] = stable_states[c]
                /\ staging_states'[c] = staging_states[c]
                /\ tick_counts'[c] = tick_counts[c]]_vars

\* the render loop ran (it issued a stripe push) during the settle delay of the last
\* column, whose keys are held while those of column 0 are already stable pressed
C16_Witness ==
    /\ kbd_pc = "settle"
    /\ col = N_COLS - 1
    /\ columns = [c \in Cols |-> IF c = N_COLS - 1 THEN "low" ELSE "high"]
    /\ ui_pc = "push_stripe"
    /\ held
    /\ Stable(K00)
    /\ ~Stable(Key(N_COLS - 1, 0))

\* C17 (one push per event, strictly sequential): at most one transport request is
\* in flight; an event is taken from the bus only when every request issued before
\* has completed, and taking it issues exactly one request, the stripe push of that
\* event; after the startup push no request is issued without an event taken; the
\* push that completes is the one of the latest event; and whenever the render loop
\* awaits the next event, one stripe push per received event has completed.
C17_OnePushPerEvent ==
    /\ [](Len(transport) <= 1)
    /\ [][n_recv' # n_recv =>
            /\ transport = <<>>
            /\ n_completed = n_requests
            /\ n_recv' = n_recv + 1
            /\ n_requests' = n_requests + 1
            /\ transport' = <<StripeRequest(CellRect(event'.key), fb')>>]_vars
    /\ [][(n_requests' # n_requests /\ n_requests >= 1) => n_recv' # n_recv]_vars
    /\ [][(ui_pc = "push_stripe" /\ n_completed' # n_completed) =>
            /\ transport = <<StripeRequest(CellRect(event.key), fb)>>
            /\ n_recv' = n_recv
            /\ n_completed' = n_completed + 1]_vars
    /\ [](ui_pc = "wait_msg" => n_completed = n_recv + 1)

\* three events were received and their pushes completed one by one, and further
\* events are pending while the render loop is about to take the next
C17_Witness ==
    /\ ui_pc = "wait_msg"
    /\ n_recv = 3
    /\ n_completed = 4
    /\ Len(CHANNEL.queue) >= 2

\* C18 (per-key alternation): a key's stable level is pressed iff the latest event
\* published for it is a KeyDown (released iff there is none or it is a KeyUp); a
\* read publishes one event for a key if its stable level changed (KeyDown if it
\* became pressed, KeyUp if released) and none otherwise; so the events of a key
\* alternate, beginning with a KeyDown.
C18_PerKeyAlternation ==
    /\ [](\A k \in Keys : Stable(k) <=> (last_event[k] = "KeyDown"))
    /\ [](\A k \in Keys :
            published[k] = (IF reported[k] = "none" THEN <<>> ELSE <<reported[k]>>))
    /\ [][\A k \in Keys :
            (kbd_pc = "settle" /\ col = k.col) =>
                LET now == stable_states'[k.col][k.row]
                IN /\ published'[k] =
                        (IF now = Stable(k) THEN <<>>
                         ELSE IF now THEN <<"KeyDown">> ELSE <<"KeyUp">>)
                   /\ published'[k] # <<>> =>
                        published'[k][1] =
                            (IF last_event[k] = "KeyDown" THEN "KeyUp" ELSE "KeyDown")]_vars

\* a key whose KeyUp was just published, after its KeyDown, by a read that followed
\* some bouncing
C18_Witness ==
    \E k \in Keys :
        /\ published[k] = <<"KeyUp">>
        /\ last_event[k] = "KeyUp"
        /\ ~Stable(k) /\ ~level[k]
        /\ run[k] = DEBOUNCE_TICKS + 2

\* C19 (panel mirrors frame buffer): whenever the render loop awaits the next bus
\* message (the startup push has completed then, and no push has failed), every
\* cell of the panel shows what the frame buffer holds for it.
C19_PanelMirrorsFrameBuffer ==
    (ui_pc = "wait_msg" /\ failed = <<>>) =>
        (n_completed >= 1 /\ \A k \in Keys : panel[k] = fb[k])

\* several stripes were pushed; the stripe of row 1 went out with one cell pressed
\* and its neighbour still unpressed, and the panel shows both
C19_Witness ==
    /\ ui_pc = "wait_msg"
    /\ n_completed >= 5
    /\ panel[Key(0, 1)] = "pressed"
    /\ panel[Key(1, 1)] = "unpressed"
    /\ panel = fb

\* C20 (stripe range in bounds): every event the scan loop publishes and every event
\* pending on the bus names a key with col < N_COLS and row < N_ROWS; and for every
\* event received, the byte range of its stripe, [y * WIDTH * 2, (y + height) * WIDTH * 2),
\* is not empty and ends inside the frame buffer, at its very end for the last row.
C20_StripeRangeInBounds ==
    /\ kbd_pc = "settle" =>
          \A i \in 1 .. Len(KbdEvents(ClosedNow)) :
              LET k == KbdEvents(ClosedNow)[i].key
              IN k.col \in 0 .. (N_COLS - 1) /\ k.row \in 0 .. (N_ROWS - 1)
    /\ \A i \in 1 .. Len(CHANNEL.queue) :
          LET k == CHANNEL.queue[i].msg.key
          IN k.col \in 0 .. (N_COLS - 1) /\ k.row \in 0 .. (N_ROWS - 1)
    /\ n_recv > 0 =>
          LET start == bounds.y * WIDTH * PIXEL_SIZE
              end == (bounds.y + bounds.height) * WIDTH * PIXEL_SIZE
          IN /\ event.key.col \in 0 .. (N_COLS - 1) /\ event.key.row \in 0 .. (N_ROWS - 1)
             /\ 0 <= start /\ start < end /\ end <= WIDTH * HEIGHT * PIXEL_SIZE
             /\ end <= FRAME_SIZE
             /\ event.key.row = N_ROWS - 1 => end = FRAME_SIZE
             /\ ui_pc = "push_stripe" =>
                   (Head(transport).data.start = start /\ Head(transport).data.end = end)

\* the stripe of the last row is in flight: its byte range ends with the buffer
C20_Witness ==
    /\ ui_pc = "push_stripe"
    /\ event.key = Key(N_COLS - 1, N_ROWS - 1)
    /\ Head(transport).data.end = FRAME_SIZE
    /\ Head(transport).data.start = FRAME_SIZE - Button_HEIGHT * WIDTH * PIXEL_SIZE

\* C21 (saturating tick counter): every key's tick_count stays within
\* 0 .. DEBOUNCE_TICKS, so within its u8, however long the key is held or idle: a
\* read leaves it, adds one, or resets it to 0, and leaves it at DEBOUNCE_TICKS once
\* there; it is 0 right after a read whose raw sample differed from staging; and the
\* staging level of a key that was sampled is its most recent raw sample.
C21_SaturatingTickCounter ==
    /\ [](\A k \in Keys :
            /\ tick_counts[k.col][k.row] \in 0 .. DEBOUNCE_TICKS
            /\ tick_counts[k.col][k.row] < U8
            /\ run[k] > 0 => staging_states[k.col][k.row] = level[k])
    /\ [][\A k \in Keys :
            (kbd_pc = "settle" /\ col = k.col) =>
                LET tick == tick_counts[k.col][k.row]
                    next == tick_counts'[k.col][k.row]
                    sample == level'[k]
                IN /\ staging_states'[k.col][k.row] = sample
                   /\ next = (IF sample # staging_states[k.col][k.row] THEN 0
                              ELSE IF tick < DEBOUNCE_TICKS THEN tick + 1
                              ELSE DEBOUNCE_TICKS)]_vars

\* a key held for longer than the observer counts: its counter rests at
\* DEBOUNCE_TICKS, its KeyDown long reported
C21_Witness ==
    \E k \in Keys :
        /\ tick_counts[k.col][k.row] = DEBOUNCE_TICKS
        /\ run[k] = RunCap
        /\ level[k] /\ staging_states[k.col][k.row] /\ Stable(k)
        /\ published[k] = <<>>

====
